---- MODULE Spec2Model ----
(***************************************************************************)
(* A model of the two row-processing scripts of parse_blat-output:         *)
(*   - process_psl_file (parse_blat-output.py): reads a PSL file, builds   *)
(*     a table and writes five CSV reports about the probe/target          *)
(*     relation;                                                           *)
(*   - process_file (process_blat_probe_file.py): filters and projects     *)
(*     the rows of a comma-delimited file.                                 *)
(* Text is modelled as a sequence of character codes (so that Python's     *)
(* code-point ordering of strings, joining and splitting are computed),    *)
(* a line of the input as the sequence of its fields.                      *)
(***************************************************************************)
EXTENDS Integers, Sequences, FiniteSets, TLC

VARIABLES
    file,       \* PSL input: the lines of the file, each a sequence of fields
    pc,         \* position of process_psl_file
    lines,      \* lines kept after the header slice (line 16)
    df,         \* the DataFrame rows (line 24), a sequence of rows of cells
    emitted,    \* the report files written so far
    reports,    \* the rows of each report file
    err,        \* the exception that ended process_psl_file, or "none"
    csvfile,    \* input of process_file: [header |-> lines present, rows |-> rows]
    fpc,        \* position of process_file
    pending,    \* rows the csv reader has not yielded yet
    outrows     \* rows written by the csv writer

pslvars == <<file, pc, lines, df, emitted, reports, err>>
csvvars == <<csvfile, fpc, pending, outrows>>
vars == <<file, pc, lines, df, emitted, reports, err, csvfile, fpc, pending, outrows>>

----------------------------------------------------------------------------
(* Bounds of the model. *)

\* most data lines in a PSL input
MaxLines == 3
\* most data rows in an input of process_file
MaxCsvRows == 2

----------------------------------------------------------------------------
(* Text: strings are sequences of character codes. *)

Range(s) == {s[i] : i \in 1..Len(s)}

\* a missing cell of the table (pandas None/NaN); no character has this code
None == << -1 >>

\* Python's str comparison a < b: lexicographic by code point
LexLess(a, b) ==
    \E k \in 1..Len(b) :
        /\ k <= Len(a) + 1
        /\ \A i \in 1..(k - 1) : a[i] = b[i]
        /\ (k = Len(a) + 1 \/ a[k] < b[k])

\* Python's sorted(S) of a set of strings
RECURSIVE Sorted(_)
Sorted(S) ==
    IF S = {} THEN <<>>
    ELSE LET m == CHOOSE x \in S : \A y \in S : y = x \/ LexLess(x, y)
         IN  <<m>> \o Sorted(S \ {m})

\* the separator ", " of the two hit listings
Sep == <<44, 32>>

\* Python's sep.join(parts)
RECURSIVE Join(_, _)
Join(parts, sep) ==
    IF parts = <<>> THEN <<>>
    ELSE IF Len(parts) = 1 THEN parts[1]
    ELSE parts[1] \o sep \o Join(Tail(parts), sep)

----------------------------------------------------------------------------
(* process_psl_file: the table. *)

\* lines of the header that line 16 slices away
HeaderLines == 5

\* the PSL column names (lines 19-23)
columns ==
    << "matches", "misMatches", "repMatches", "nCount", "qNumInsert", "qBaseInsert",
       "tNumInsert", "tBaseInsert", "strand", "qName", "qSize", "qStart", "qEnd",
       "tName", "tSize", "tStart", "tEnd", "blockCount", "blockSizes", "qStarts",
       "tStarts" >>

\* position of a named column
ColIndex(name) == CHOOSE i \in 1..Len(columns) : columns[i] = name

\* infile.readlines()[5:]
SliceHeader(ls) == SubSeq(ls, HeaderLines + 1, Len(ls))

\* the widest row of a list of rows
MaxWidth(data) ==
    CHOOSE w \in {Len(data[i]) : i \in 1..Len(data)} :
        \A i \in 1..Len(data) : Len(data[i]) <= w

\* a row filled up with missing cells to width w
PadRow(row, w) == [i \in 1..w |-> IF i <= Len(row) THEN row[i] ELSE None]

\* DataFrame without the case of an empty list: no row, so a width of 0
DataFrameNoEmptyCase(data, cols) ==
    IF data = <<>> \/ MaxWidth(data) # Len(cols) THEN [ok |-> FALSE, rows |-> <<>>]
    ELSE [ok |-> TRUE, rows |-> [i \in 1..Len(data) |-> PadRow(data[i], Len(cols))]]

\* pd.DataFrame(data, columns=cols) of a list of lists: an empty list gives an
\* empty table; otherwise the rows are padded to the widest row, and that
\* width must be the number of column names.
DataFrame(data, cols) ==
    IF data = <<>> THEN [ok |-> TRUE, rows |-> <<>>]
    ELSE IF MaxWidth(data) # Len(cols) THEN [ok |-> FALSE, rows |-> <<>>]
    ELSE [ok |-> TRUE, rows |-> [i \in 1..Len(data) |-> PadRow(data[i], Len(cols))]]

IsDigit(c) == c \in 48..57
IsSign(c) == c \in {43, 45}

\* whether int(s) accepts the text s: an optional sign and decimal digits
IsIntLiteral(s) ==
    /\ Len(s) >= 1
    /\ LET d == IF IsSign(s[1]) THEN Tail(s) ELSE s
       IN  Len(d) >= 1 /\ \A i \in 1..Len(d) : IsDigit(d[i])

RECURSIVE DigitsValue(_)
DigitsValue(d) ==
    IF d = <<>> THEN 0
    ELSE 10 * DigitsValue(SubSeq(d, 1, Len(d) - 1)) + (d[Len(d)] - 48)

\* int(s) of an accepted text
IntValue(s) ==
    IF s[1] = 45 THEN 0 - DigitsValue(Tail(s))
    ELSE IF s[1] = 43 THEN DigitsValue(Tail(s))
    ELSE DigitsValue(s)

\* a conversion that never fails (errors="coerce"): a cell int() rejects
\* becomes a missing cell
AsTypeIntCoerce(frame, col) ==
    [ok |-> TRUE, error |-> "none",
     rows |-> [i \in 1..Len(frame) |->
                  [frame[i] EXCEPT ![col] =
                      IF frame[i][col] # None /\ IsIntLiteral(frame[i][col])
                      THEN IntValue(frame[i][col]) ELSE None]]]

\* df[col].astype(int): "TypeError" on a missing cell, "ValueError" on a text
\* int() rejects, else the table with the column converted
AsTypeInt(frame, col) ==
    IF \E i \in 1..Len(frame) : frame[i][col] = None
        THEN [ok |-> FALSE, error |-> "TypeError", rows |-> frame]
    ELSE IF \E i \in 1..Len(frame) : ~IsIntLiteral(frame[i][col])
        THEN [ok |-> FALSE, error |-> "ValueError", rows |-> frame]
    ELSE [ok |-> TRUE, error |-> "none",
          rows |-> [i \in 1..Len(frame) |->
                       [frame[i] EXCEPT ![col] = IntValue(frame[i][col])]]]

\* the values of one column, in row order
Column(frame, col) == [i \in 1..Len(frame) |-> frame[i][col]]

\* the distinct elements of a sequence in order of first appearance
RECURSIVE FirstSeen(_)
FirstSeen(s) ==
    IF s = <<>> THEN <<>>
    ELSE LET init == SubSeq(s, 1, Len(s) - 1)
         IN  FirstSeen(init) \o (IF s[Len(s)] \in Range(init) THEN <<>> ELSE <<s[Len(s)]>>)

\* the group keys of df.groupby(by, sort=False): in order of first appearance
GroupKeysUnsorted(frame, by) ==
    SelectSeq(FirstSeen(Column(frame, by)), LAMBDA k : k # None)

\* the group keys of df.groupby(by): the distinct non-missing values of the
\* column, sorted (sort=True is the default)
GroupKeys(frame, by) == Sorted(Range(Column(frame, by)) \ {None})

\* the whole column instead of the rows of the group
GroupAllRows(frame, by, key, col) == Column(frame, col)

\* the values of column col in the rows of one group, in row order
Group(frame, by, key, col) ==
    Column(SelectSeq(frame, LAMBDA r : r[by] = key), col)

\* Series.count(): repeated values counted each time
NUniqueCount(values) == Len(SelectSeq(values, LAMBDA v : v # None))

\* Series.nunique(): the number of distinct non-missing values
NUnique(values) == Cardinality(Range(values) \ {None})

\* ", ".join(sorted(x)): repeated values listed each time
HitListNoSet(values) == Join(SortSeq(values, LexLess), Sep)

\* ", ".join(sorted(set(x)))
HitList(values) == Join(Sorted(Range(values)), Sep)

\* df.groupby(by)[col].nunique().reset_index(): one row per key
CountReport(frame, by, col) ==
    LET keys == GroupKeys(frame, by)
    IN  [k \in 1..Len(keys) |-> <<keys[k], NUnique(Group(frame, by, keys[k], col))>>]

\* df.groupby(by)[col].apply(lambda x: ", ".join(sorted(set(x)))).reset_index()
HitsReport(frame, by, col) ==
    LET keys == GroupKeys(frame, by)
    IN  [k \in 1..Len(keys) |-> <<keys[k], HitList(Group(frame, by, keys[k], col))>>]

\* the values of the probe column taken for the targets
AllTargetsWrongColumn(frame) == Range(Column(frame, ColIndex("qName")))

\* set(df["tName"].unique())
AllTargets(frame) == Range(Column(frame, ColIndex("tName")))

\* the probes whose set of targets is covered by all_targets (<= for ==)
UniversalReportCovered(frame) ==
    LET q == ColIndex("qName")
        t == ColIndex("tName")
        keys == GroupKeys(frame, q)
        hit == SelectSeq(keys, LAMBDA p : Range(Group(frame, q, p, t)) \subseteq AllTargets(frame))
    IN  [k \in 1..Len(hit) |-> <<hit[k]>>]

\* the probes whose set of targets is all_targets (lines 51-53), one row each
UniversalReport(frame) ==
    LET q == ColIndex("qName")
        t == ColIndex("tName")
        keys == GroupKeys(frame, q)
        hit == SelectSeq(keys, LAMBDA p : Range(Group(frame, q, p, t)) = AllTargets(frame))
    IN  [k \in 1..Len(hit) |-> <<hit[k]>>]

\* the five report files, in the order they are written
ReportNames ==
    << "Unique_Target_Counts", "Unique_Probe_Counts", "Probe_to_Target_Hits",
       "Target_to_Probe_Hits", "Probes_Hitting_All_Targets" >>

\* the five reports of a converted table, by file name
ReportsOf(frame) ==
    [n \in Range(ReportNames) |->
        IF n = ReportNames[1] THEN CountReport(frame, ColIndex("tName"), ColIndex("qName"))
        ELSE IF n = ReportNames[2] THEN CountReport(frame, ColIndex("qName"), ColIndex("tName"))
        ELSE IF n = ReportNames[3] THEN HitsReport(frame, ColIndex("qName"), ColIndex("tName"))
        ELSE IF n = ReportNames[4] THEN HitsReport(frame, ColIndex("tName"), ColIndex("qName"))
        ELSE UniversalReport(frame)]

\* process_psl_file as a function of the lines of its input file: whether it
\* returns, and the report files it leaves
ProcessPsl(f) ==
    LET built == DataFrame(SliceHeader(f), columns)
        typed == AsTypeInt(built.rows, ColIndex("blockCount"))
    IN  IF built.ok /\ typed.ok
        THEN [ok |-> TRUE, reports |-> ReportsOf(typed.rows)]
        ELSE [ok |-> FALSE, reports |-> [n \in {} |-> <<>>]]

----------------------------------------------------------------------------
(* process_psl_file: the inputs of the model. *)

\* a line of n tab-separated fields (the value of line.strip().split("\t")):
\* the three fields the function reads, and a filler text in every other one
MkLine(n, q, t, b) ==
    [i \in 1..n |->
        IF i = ColIndex("qName") THEN q
        ELSE IF i = ColIndex("tName") THEN t
        ELSE IF i = ColIndex("blockCount") THEN b
        ELSE <<64 + i>>]

\* probe names "a", "ab", "B" and ", a"
ProbeIds == { <<97>>, <<97, 98>>, <<66>>, <<44, 32, 97>> }
\* target names "x" and "xy"
TargetIds == { <<120>>, <<120, 121>> }
\* blockCount texts "3" and "NA"
BlockFields == { <<51>>, <<78, 65>> }
\* numbers of fields of a line whose count is not that of the column names
OtherFieldCounts == {17, 20, 22}

\* the data lines of the model: every probe/target pair in a line of 21
\* fields, lines with other field counts, and lines with each blockCount text
DataLines ==
    {MkLine(Len(columns), q, t, <<51>>) : q \in ProbeIds, t \in TargetIds}
    \cup {MkLine(n, <<97, 98>>, <<120, 121>>, <<51>>) : n \in OtherFieldCounts}
    \cup {MkLine(Len(columns), <<97>>, <<120>>, b) : b \in BlockFields}

\* a header line of the file; its text is never read
HeaderLine == << <<35>> >>

SeqsUpTo(S, n) == UNION {[1..k -> S] : k \in 0..n}

\* the input files: a header of up to 5 lines alone, or a header of 4 or 5
\* lines and then data lines
PslFiles ==
    {[i \in 1..k |-> HeaderLine] : k \in 0..HeaderLines}
    \cup {[i \in 1..k |-> HeaderLine] \o d :
            k \in {HeaderLines - 1, HeaderLines}, d \in SeqsUpTo(DataLines, MaxLines)}

NoReports == [n \in Range(ReportNames) |-> <<>>]

----------------------------------------------------------------------------
(* process_psl_file: one action per statement that reads, fails or writes. *)

PslIdle ==
    /\ file = <<>>
    /\ pc = "idle"
    /\ lines = <<>>
    /\ df = <<>>
    /\ emitted = {}
    /\ reports = NoReports
    /\ err = "none"

CsvIdle ==
    /\ csvfile = <<>>
    /\ fpc = "idle"
    /\ pending = <<>>
    /\ outrows = <<>>

InitPsl ==
    /\ file \in PslFiles
    /\ pc = "read"
    /\ lines = <<>>
    /\ df = <<>>
    /\ emitted = {}
    /\ reports = NoReports
    /\ err = "none"

\* lines 15-16
ReadLines ==
    /\ pc = "read"
    /\ lines' = SliceHeader(file)
    /\ pc' = "frame"
    /\ UNCHANGED <<file, df, emitted, reports, err>>
    /\ UNCHANGED csvvars

\* line 24
BuildFrame ==
    /\ pc = "frame"
    /\ LET r == DataFrame(lines, columns)
       IN  IF r.ok
           THEN df' = r.rows /\ pc' = "astype" /\ err' = err
           ELSE df' = df /\ pc' = "error" /\ err' = "ValueError"
    /\ UNCHANGED <<file, lines, emitted, reports>>
    /\ UNCHANGED csvvars

\* line 27
ConvertBlockCount ==
    /\ pc = "astype"
    /\ LET r == AsTypeInt(df, ColIndex("blockCount"))
       IN  IF r.ok
           THEN df' = r.rows /\ pc' = ReportNames[1] /\ err' = err
           ELSE df' = df /\ pc' = "error" /\ err' = r.error
    /\ UNCHANGED <<file, lines, emitted, reports>>
    /\ UNCHANGED csvvars

\* to_csv of the k-th report, then on to the next statement
WriteReport(k, rows) ==
    /\ pc = ReportNames[k]
    /\ emitted' = emitted \cup {ReportNames[k]}
    /\ reports' = [reports EXCEPT ![ReportNames[k]] = rows]
    /\ pc' = IF k < Len(ReportNames) THEN ReportNames[k + 1] ELSE "done"
    /\ UNCHANGED <<file, lines, df, err>>
    /\ UNCHANGED csvvars

\* lines 30-32
WriteTargetCounts == WriteReport(1, CountReport(df, ColIndex("tName"), ColIndex("qName")))
\* lines 35-37
WriteProbeCounts == WriteReport(2, CountReport(df, ColIndex("qName"), ColIndex("tName")))
\* lines 40-42
WriteProbeHits == WriteReport(3, HitsReport(df, ColIndex("qName"), ColIndex("tName")))
\* lines 45-47
WriteTargetHits == WriteReport(4, HitsReport(df, ColIndex("tName"), ColIndex("qName")))
\* lines 50-54
WriteUniversal == WriteReport(5, UniversalReport(df))

Init == InitPsl /\ CsvIdle

Next ==
    \/ ReadLines
    \/ BuildFrame
    \/ ConvertBlockCount
    \/ WriteTargetCounts
    \/ WriteProbeCounts
    \/ WriteProbeHits
    \/ WriteTargetHits
    \/ WriteUniversal

Spec == Init /\ [][Next]_vars

----------------------------------------------------------------------------
(* Vocabulary of the properties: the input as given, the reports as written. *)

\* the data lines of the input: those after the header
Records == SliceHeader(file)

ProbeOf(r) == r[ColIndex("qName")]
TargetOf(r) == r[ColIndex("tName")]
BlockOf(r) == r[ColIndex("blockCount")]

InputProbes == {ProbeOf(Records[i]) : i \in 1..Len(Records)}
InputTargets == {TargetOf(Records[i]) : i \in 1..Len(Records)}
Aligned(p, t) == \E i \in 1..Len(Records) : ProbeOf(Records[i]) = p /\ TargetOf(Records[i]) = t
TargetsOf(p) == {t \in InputTargets : Aligned(p, t)}
ProbesOf(t) == {p \in InputProbes : Aligned(p, t)}

\* every data line has one field per column name
AllRecords == \A i \in 1..Len(Records) : Len(Records[i]) = Len(columns)

TargetCounts == reports["Unique_Target_Counts"]
ProbeCounts == reports["Unique_Probe_Counts"]
ProbeToTargets == reports["Probe_to_Target_Hits"]
TargetToProbes == reports["Target_to_Probe_Hits"]
UniversalProbes == reports["Probes_Hitting_All_Targets"]

\* the keys of a report, and the value a report gives a key
KeysOf(rep) == {rep[i][1] : i \in 1..Len(rep)}
ValueOf(rep, key) == (CHOOSE r \in Range(rep) : r[1] = key)[2]

\* Python's s.split(sep), the reading of a listing back into its entries
RECURSIVE Split(_, _)
Split(s, sep) ==
    LET n == Len(sep)
        at == {i \in 1..(Len(s) - n + 1) : SubSeq(s, i, i + n - 1) = sep}
    IN  IF at = {} THEN <<s>>
        ELSE LET i == CHOOSE j \in at : \A k \in at : j <= k
             IN  <<SubSeq(s, 1, i - 1)>> \o Split(SubSeq(s, i + n, Len(s)), sep)

\* the entries of the listing a hits report gives a key (none without a row)
Entries(rep, key) ==
    IF key \in KeysOf(rep) THEN Range(Split(ValueOf(rep, key), Sep)) ELSE {}

HasComma(s) == 44 \in Range(s)
NoCommaIds == \A s \in InputProbes \cup InputTargets : ~HasComma(s)

Finished == pc = "done"

AllEmitted == emitted = Range(ReportNames)

\* the run has ended in an error, or has not ended yet
EndsInError == pc = "error" \/ (pc # "done" /\ ENABLED Next)

----------------------------------------------------------------------------
(* Properties of process_psl_file. *)

\* C1: when the run has finished, a probe is listed in
\* Probes_Hitting_All_Targets if and only if it occurs in the input and the
\* set of targets it aligns to is the set of all targets of the input.
C1_UniversalIffAllTargets ==
    Finished =>
        /\ KeysOf(UniversalProbes) \subseteq InputProbes
        /\ \A p \in InputProbes :
              (<<p>> \in Range(UniversalProbes)) <=> (TargetsOf(p) = InputTargets)

C1_Witness ==
    /\ Finished
    /\ Cardinality(InputTargets) >= 2
    /\ UniversalProbes # <<>>
    /\ KeysOf(UniversalProbes) # InputProbes

\* a blockCount text that int() cannot accept: empty, or with a character
\* that is neither a digit nor a sign
NotAnInteger(s) == s = <<>> \/ \E k \in 1..Len(s) : ~IsDigit(s[k]) /\ ~IsSign(s[k])

HasUnparsableBlock ==
    \E i \in 1..Len(Records) :
        /\ Len(Records[i]) >= ColIndex("blockCount")
        /\ NotAnInteger(BlockOf(Records[i]))

\* C2: if a record's blockCount cannot be parsed as an integer, the run ends
\* in an error with no report written; and an error never leaves some of
\* the reports written.
C2_UnparsableBlockCountIsFatal ==
    /\ HasUnparsableBlock => (emitted = {} /\ EndsInError)
    /\ pc = "error" => emitted = {}
    /\ Finished => AllEmitted

C2_Witness ==
    /\ pc = "error"
    /\ err = "ValueError"
    /\ df # <<>>
    /\ HasUnparsableBlock

\* C3: with no line after the header the run finishes without an error and
\* each of the five reports has no rows.
C3_EmptyInputEmptyReports ==
    Records = <<>> =>
        /\ pc # "error"
        /\ Finished \/ ENABLED Next
        /\ \A n \in emitted : reports[n] = <<>>
        /\ Finished => AllEmitted

C3_Witness ==
    /\ Finished
    /\ Records = <<>>
    /\ Len(file) = HeaderLines
    /\ AllEmitted

\* the count of every key equals the number of entries of its listing
CountsMatchListings ==
    /\ \A t \in InputTargets :
          ValueOf(TargetCounts, t) = Len(Split(ValueOf(TargetToProbes, t), Sep))
    /\ \A p \in InputProbes :
          ValueOf(ProbeCounts, p) = Len(Split(ValueOf(ProbeToTargets, p), Sep))

\* C4 as stated: for arbitrary non-empty names, each count equals the number
\* of comma-separated entries of the matching listing.
C4_Original == Finished => CountsMatchListings

\* C4, amended: when no probe or target name contains a comma, each count
\* equals the number of comma-separated entries of the matching listing.
C4_CountsMatchListings == (Finished /\ NoCommaIds) => CountsMatchListings

C4_Witness ==
    /\ Finished
    /\ NoCommaIds
    /\ \E t \in InputTargets : ValueOf(TargetCounts, t) >= 2
    /\ \E p \in InputProbes : ValueOf(ProbeCounts, p) >= 2

\* membership in the two listings agrees, and is alignment in the input
SymmetricMembership ==
    \A p \in ProbeIds, t \in TargetIds :
        /\ (p \in Entries(TargetToProbes, t)) <=> (t \in Entries(ProbeToTargets, p))
        /\ (p \in Entries(TargetToProbes, t)) <=> Aligned(p, t)

\* C5 as stated: for every input, p is an entry of TargetToProbes[t] iff t is
\* an entry of ProbeToTargets[p] iff some record aligns p to t.
C5_Original == Finished => SymmetricMembership

\* C5, amended: when no probe or target name contains a comma, p is an entry
\* of TargetToProbes[t] iff t is an entry of ProbeToTargets[p] iff some
\* record aligns p to t.
C5_SymmetricMembership == (Finished /\ NoCommaIds) => SymmetricMembership

C5_Witness ==
    /\ Finished
    /\ NoCommaIds
    /\ \E p \in InputProbes, t \in InputTargets : Aligned(p, t)
    /\ \E p \in InputProbes, t \in InputTargets : ~Aligned(p, t)

\* the elements of a sequence at the positions in keep, in order
RECURSIVE AtPositions(_, _)
AtPositions(s, keep) ==
    IF s = <<>> THEN <<>>
    ELSE AtPositions(SubSeq(s, 1, Len(s) - 1), keep)
         \o (IF Len(s) \in keep THEN <<s[Len(s)]>> ELSE <<>>)

\* the records with every repeated (probe, target) pair removed after its
\* first occurrence
Dedup(recs) ==
    AtPositions(recs,
        {i \in 1..Len(recs) :
            \A j \in 1..(i - 1) :
                ProbeOf(recs[j]) # ProbeOf(recs[i]) \/ TargetOf(recs[j]) # TargetOf(recs[i])})

\* the header of the input file as it is
Header == SubSeq(file, 1, Len(file) - Len(Records))

\* C6: the five reports are those computed from the loaded records without
\* their repeated (probe, target) pairs; and for an input whose data lines
\* all have 21 fields, they are the reports of a run on the input file
\* without the lines that repeat a pair.
C6_DuplicatesChangeNothing ==
    /\ Finished => ReportsOf(Dedup(df)) = reports
    /\ (Finished /\ AllRecords) =>
          LET r == ProcessPsl(Header \o Dedup(Records))
          IN  r.ok /\ r.reports = reports

C6_Witness ==
    /\ Finished
    /\ AllRecords
    /\ Len(Dedup(df)) < Len(df)
    /\ Len(Dedup(Records)) >= 2

\* C7: a data line whose number of fields is not 21 ends the run in an error
\* with no report written.
C7_WrongFieldCountIsFatal ==
    (\E i \in 1..Len(Records) : Len(Records[i]) # Len(columns))
        => (emitted = {} /\ EndsInError)

StrictlyAscending(rep) ==
    \A i \in 1..(Len(rep) - 1) : LexLess(rep[i][1], rep[i + 1][1])

Reverse(s) == [i \in 1..Len(s) |-> s[Len(s) + 1 - i]]

\* C8: the rows of every written report are in strictly ascending
\* lexicographic order of their key, and the reports of the input are those
\* of the input with its records in reverse order.
C8_RowsSortedByKey ==
    /\ \A n \in emitted : StrictlyAscending(reports[n])
    /\ Finished => ProcessPsl(Header \o Reverse(Records)).reports = reports

C8_Witness ==
    /\ Finished
    /\ Len(ProbeCounts) >= 2
    /\ Len(TargetCounts) >= 2
    /\ UniversalProbes # <<>>
    /\ LexLess(ProbeOf(Records[2]), ProbeOf(Records[1]))

\* C10: every probe's target set is within the keys of TargetCounts, and a
\* probe is a universal probe iff its count in ProbeCounts is the number of
\* rows of TargetCounts; with one target every probe is universal, and with
\* no probe hitting every target there is no universal probe.
C10_EqualityIsCardinality ==
    Finished =>
        /\ \A p \in InputProbes :
              /\ TargetsOf(p) \subseteq KeysOf(TargetCounts)
              /\ (<<p>> \in Range(UniversalProbes))
                    <=> (ValueOf(ProbeCounts, p) = Len(TargetCounts))
        /\ Cardinality(InputTargets) = 1 => KeysOf(UniversalProbes) = InputProbes
        /\ (\A p \in InputProbes : TargetsOf(p) # InputTargets) => UniversalProbes = <<>>

C10_Witness ==
    /\ Finished
    /\ Len(TargetCounts) = 2
    /\ \E p \in InputProbes : ValueOf(ProbeCounts, p) = 2
    /\ \E p \in InputProbes : ValueOf(ProbeCounts, p) = 1

----------------------------------------------------------------------------
(* process_file: filtering and projecting the rows of a comma-delimited file. *)

\* header lines skipped before the csv reader starts
CsvHeaderLines == 5
\* fewest columns of a row that is looked at
MinColumns == 18
\* column 1 must be above this
Column1Min == 108
\* column 18 must be at most this
Column18Max == 1

\* the columns written, counted from 1
SelectedColumns == <<1, 2, 9, 10, 14, 15, 16, 18>>

RECURSIVE Pow10(_)
Pow10(n) == IF n = 0 THEN 1 ELSE 10 * Pow10(n - 1)

\* Python's float(s) on the texts of the model: "nan" and "inf" (with an
\* optional sign) and decimal numerals with an optional fraction; any other
\* text raises ValueError. A number is mant / 10^scale.
ParseFloat(s) ==
    LET signed == Len(s) >= 1 /\ IsSign(s[1])
        neg == signed /\ s[1] = 45
        body == IF signed THEN Tail(s) ELSE s
        dots == {i \in 1..Len(body) : body[i] = 46}
        digits == SelectSeq(body, IsDigit)
    IN  IF body = <<110, 97, 110>> THEN [kind |-> "nan", mant |-> 0, scale |-> 0]
        ELSE IF body = <<105, 110, 102>>
            THEN [kind |-> "inf", mant |-> IF neg THEN -1 ELSE 1, scale |-> 0]
        ELSE IF /\ Len(digits) >= 1
                /\ Cardinality(dots) <= 1
                /\ Len(digits) + Cardinality(dots) = Len(body)
            THEN [kind |-> "num",
                  mant |-> IF neg THEN 0 - DigitsValue(digits) ELSE DigitsValue(digits),
                  scale |-> IF dots = {} THEN 0
                            ELSE Len(body) - (CHOOSE i \in dots : TRUE)]
        ELSE [kind |-> "error", mant |-> 0, scale |-> 0]

\* the comparison f <= n of a float with an integer; False on nan
FloatLE(f, n) ==
    \/ f.kind = "num" /\ f.mant <= n * Pow10(f.scale)
    \/ f.kind = "inf" /\ f.mant < 0

\* the comparison f > n of a float with an integer; False on nan
FloatGT(f, n) ==
    \/ f.kind = "num" /\ f.mant > n * Pow10(f.scale)
    \/ f.kind = "inf" /\ f.mant > 0

\* line 93: the selected columns of a row
Project(row) == [k \in 1..Len(SelectedColumns) |-> row[SelectedColumns[k]]]

\* a row of n fields: columns 1 and 18 as given, a filler text elsewhere
MkRow(n, c1, c18) ==
    [i \in 1..n |-> IF i = 1 THEN c1 ELSE IF i = MinColumns THEN c18 ELSE <<64 + i>>]

\* texts of column 1: "109", "108", "108.5", "nan", "inf", "x"
Column1Texts ==
    { <<49, 48, 57>>, <<49, 48, 56>>, <<49, 48, 56, 46, 53>>,
      <<110, 97, 110>>, <<105, 110, 102>>, <<120>> }
\* texts of column 18: "1", "2", "nan", "x"
Column18Texts == { <<49>>, <<50>>, <<110, 97, 110>>, <<120>> }

\* the rows of the model: rows of 18 columns, a longer and a shorter row
CsvRows ==
    {MkRow(MinColumns, a, b) : a \in Column1Texts, b \in Column18Texts}
    \cup {MkRow(MinColumns + 1, <<49, 48, 57>>, <<49>>),
          MkRow(MinColumns - 1, <<49, 48, 57>>, <<49>>)}

\* the input files: up to 5 header lines alone, or 5 header lines and rows
CsvFiles ==
    {[i \in 1..k |-> HeaderLine] : k \in 0..CsvHeaderLines}
    \cup {[i \in 1..CsvHeaderLines |-> HeaderLine] \o d : d \in SeqsUpTo(CsvRows, MaxCsvRows)}

InitCsv ==
    /\ csvfile \in CsvFiles
    /\ fpc = "header"
    /\ pending = <<>>
    /\ outrows = <<>>

\* lines 70-71: next(infile) five times; StopIteration when the file ends first
SkipHeader ==
    /\ fpc = "header"
    /\ IF Len(csvfile) < CsvHeaderLines
       THEN fpc' = "error" /\ pending' = pending
       ELSE fpc' = "rows" /\ pending' = SubSeq(csvfile, CsvHeaderLines + 1, Len(csvfile))
    /\ UNCHANGED <<csvfile, outrows>>
    /\ UNCHANGED pslvars

\* one turn of the loop of line 76 on the next row, which is not written
SkipRow(why) ==
    /\ fpc = "rows"
    /\ pending # <<>>
    /\ why
    /\ pending' = Tail(pending)
    /\ UNCHANGED <<csvfile, fpc, outrows>>
    /\ UNCHANGED pslvars

\* lines 78-79
SkipShortRow == SkipRow(Len(Head(pending)) < MinColumns)

\* lines 81-90: a conversion raises ValueError. float(row[17]) is only
\* reached when column 1 converts and is not <= 108.
SkipUnparsableRow ==
    SkipRow(/\ Len(Head(pending)) >= MinColumns
            /\ LET f1 == ParseFloat(Head(pending)[1])
                   f18 == ParseFloat(Head(pending)[MinColumns])
               IN  \/ f1.kind = "error"
                   \/ ~FloatLE(f1, Column1Min) /\ f18.kind = "error")

\* lines 83-84
SkipLowColumn1 ==
    SkipRow(/\ Len(Head(pending)) >= MinColumns
            /\ LET f1 == ParseFloat(Head(pending)[1])
               IN  f1.kind # "error" /\ FloatLE(f1, Column1Min))

\* lines 86-87
SkipHighColumn18 ==
    SkipRow(/\ Len(Head(pending)) >= MinColumns
            /\ LET f1 == ParseFloat(Head(pending)[1])
                   f18 == ParseFloat(Head(pending)[MinColumns])
               IN  /\ f1.kind # "error" /\ ~FloatLE(f1, Column1Min)
                   /\ f18.kind # "error" /\ FloatGT(f18, Column18Max))

\* lines 93-94
WriteRow ==
    /\ fpc = "rows"
    /\ pending # <<>>
    /\ Len(Head(pending)) >= MinColumns
    /\ LET f1 == ParseFloat(Head(pending)[1])
           f18 == ParseFloat(Head(pending)[MinColumns])
       IN  /\ f1.kind # "error" /\ ~FloatLE(f1, Column1Min)
           /\ f18.kind # "error" /\ ~FloatGT(f18, Column18Max)
    /\ outrows' = Append(outrows, Project(Head(pending)))
    /\ pending' = Tail(pending)
    /\ UNCHANGED <<csvfile, fpc>>
    /\ UNCHANGED pslvars

\* the reader is exhausted: lines 96-97
FinishFile ==
    /\ fpc = "rows"
    /\ pending = <<>>
    /\ fpc' = "done"
    /\ UNCHANGED <<csvfile, pending, outrows>>
    /\ UNCHANGED pslvars

InitFilter == InitCsv /\ PslIdle

NextFilter ==
    \/ SkipHeader
    \/ SkipShortRow
    \/ SkipUnparsableRow
    \/ SkipLowColumn1
    \/ SkipHighColumn18
    \/ WriteRow
    \/ FinishFile

SpecFilter == InitFilter /\ [][NextFilter]_vars

----------------------------------------------------------------------------
(* Properties of process_file. *)

\* the rows after the five header lines
CsvData == SubSeq(csvfile, CsvHeaderLines + 1, Len(csvfile))

\* a row that is to be written: at least 18 columns, column 1 a number above
\* 108, column 18 a number of at most 1
Passes(row) ==
    /\ Len(row) >= MinColumns
    /\ FloatGT(ParseFloat(row[1]), Column1Min)
    /\ FloatLE(ParseFloat(row[MinColumns]), Column18Max)

\* C9: the output is, in input order, the projection onto columns 1, 2, 9,
\* 10, 14, 15, 16, 18 of exactly the rows with at least 18 columns, column 1
\* numeric and > 108 and column 18 numeric and <= 1; no row ends the run.
C9_OutputIsFilteredProjection ==
    /\ Len(csvfile) >= CsvHeaderLines => fpc # "error"
    /\ fpc = "done" =>
          LET kept == SelectSeq(CsvData, Passes)
          IN  outrows = [k \in 1..Len(kept) |-> Project(kept[k])]

====
